---- MODULE Spec2Model ----
(***************************************************************************)
(* Model of nearly_divisionless_rand (src/src/lib.rs): the function        *)
(* ndl_rand and the two arithmetic tests cast_uints_same_as_c and          *)
(* unary_minus_same_as_c.  Machine words are W bits wide instead of 64;    *)
(* the u128 intermediate is 2W bits wide, i64 is the W-bit signed type.    *)
(***************************************************************************)
EXTENDS Integers, Sequences, FiniteSets

\* word width standing for 64 (u64 / i64); u128 is 2*W bits
W == 5
\* cap on the calls to the random source within one ndl_rand call
MaxDraws == 3

VARIABLES pc, max, rand_seed, rand_dividend, rand_dividend_u64, t,
          draws, consumed, result,
          cpc, rnd, attempts_cnt, cast, c_assigned,
          npc, x, c_neg, rust_neg

nvars == <<pc, max, rand_seed, rand_dividend, rand_dividend_u64, t,
           draws, consumed, result>>
cvars == <<cpc, rnd, attempts_cnt, cast, c_assigned>>
uvars == <<npc, x, c_neg, rust_neg>>
vars == <<nvars, cvars, uvars>>

----------------------------------------------------------------------------
(* Fixed-width arithmetic *)

U64 == 0 .. (2^W - 1)
U128 == 0 .. (2^(2*W) - 1)
U64_MAX == 2^W - 1
I64_MIN == -(2^(W-1))
I64_MAX == 2^(W-1) - 1

\* little-endian bit pattern of a non-negative value, n bits
ToBits(v, n) == [i \in 1..n |-> (v \div 2^(i-1)) % 2]

RECURSIVE FromBits(_)
FromBits(b) == IF Len(b) = 0 THEN 0 ELSE Head(b) + 2 * FromBits(Tail(b))

\* a cast that clamps to the largest word instead of truncating
CastU64Saturating(r) == IF r > U64_MAX THEN U64_MAX ELSE r
\* `r as u64` for r: u128 -- keeps the low W bits of the pattern
CastU64(r) == FromBits(SubSeq(ToBits(r, 2*W), 1, W))

\* a shift that is one bit short
Shr64Short(r) == FromBits(SubSeq(ToBits(r, 2*W), W, 2*W))
\* `r >> 64` for r: u128 -- drops the low W bits of the pattern
Shr64(r) == FromBits(SubSeq(ToBits(r, 2*W), W+1, 2*W))

\* `(a as u128) * (b as u128)`
Mul128(a, b) == (a * b) % 2^(2*W)

\* `u as i64` for u: u64 -- same bit pattern read as two's complement
AsI64(u) == IF u > I64_MAX THEN u - 2^W ELSE u

\* `i as u64` for i: i64
AsU64(i) == IF i < 0 THEN i + 2^W ELSE i

Abs(i) == IF i < 0 THEN -i ELSE i

\* unary minus on i64: the value is not representable for I64_MIN; a build
\* with overflow checks panics there, a build without them wraps
NegOverflows(i) == i = I64_MIN
WrappingNeg(i) == IF i = I64_MIN THEN I64_MIN ELSE -i
\* `-i` in a build with (checks = TRUE) or without overflow checks
Neg(i, checks) ==
    IF NegOverflows(i) /\ checks
    THEN [panic |-> TRUE, val |-> 0]
    ELSE [panic |-> FALSE, val |-> WrappingNeg(i)]
NegOutcomes(i) == {Neg(i, checks) : checks \in BOOLEAN}

\* `a % b` on i64: remainder of the division truncated towards zero
RemOverflows(a, b) == a = I64_MIN /\ b = -1
Rem(a, b) == IF a >= 0 THEN a % Abs(b) ELSE -((-a) % Abs(b))

\* `u64::MAX - v + 1`: the addition overflows u64 when v = 0
CNegOutcomes(v) ==
    IF U64_MAX - v + 1 > U64_MAX
    THEN {[panic |-> TRUE, val |-> 0],
          [panic |-> FALSE, val |-> (U64_MAX - v + 1) % 2^W]}
    ELSE {[panic |-> FALSE, val |-> U64_MAX - v + 1]}

----------------------------------------------------------------------------
(* ndl_rand *)

Ok(v) == [kind |-> "Ok", val |-> v]
Err == [kind |-> "Err", val |-> 0]
NoResult == [kind |-> "none", val |-> 0]

\* a bound test that lets 0 through
InvalidBoundNever(m) == FALSE
\* `if max == 0`
InvalidBound(m) == m = 0

\* `-(max as i64) % (max as i64)`: the i64 value t, or a panic, in a build
\* with (checks = TRUE) or without overflow checks
Threshold(m, checks) ==
    LET n == Neg(AsI64(m), checks) IN
    IF n.panic \/ RemOverflows(n.val, AsI64(m))
    THEN [panic |-> TRUE, val |-> 0]
    ELSE [panic |-> FALSE, val |-> Rem(n.val, AsI64(m))]
ThresholdOutcomes(m) == {Threshold(m, checks) : checks \in BOOLEAN}

\* low and high halves of the product of a sample and the bound
Low(s, m) == CastU64(Mul128(s, m))
High(s, m) == CastU64(Shr64(Mul128(s, m)))

\* a sample is returned when the `if` is skipped, or when the threshold is
\* computed without a panic and the `while` test fails
Accepted(s, m, checks) ==
    \/ ~(Low(s, m) < m)
    \/ /\ ~Threshold(m, checks).panic
       /\ ~(Low(s, m) < AsU64(Threshold(m, checks).val))

Init ==
    /\ pc = "call"
    /\ max \in U64
    /\ rand_seed = 0 /\ rand_dividend = 0 /\ rand_dividend_u64 = 0 /\ t = 0
    /\ draws = 0 /\ consumed = <<>>
    /\ result = NoResult
    /\ cpc = "idle" /\ rnd = 0 /\ attempts_cnt = 0 /\ cast = 0 /\ c_assigned = 0
    /\ npc = "idle" /\ x = 0 /\ c_neg = 0 /\ rust_neg = 0

\* lines 22-24
CheckMax ==
    /\ pc = "call"
    /\ IF InvalidBound(max)
       THEN /\ result' = Err
            /\ pc' = "returned"
       ELSE /\ pc' = "draw"
            /\ UNCHANGED result
    /\ UNCHANGED <<max, rand_seed, rand_dividend, rand_dividend_u64, t,
                   draws, consumed, cvars, uvars>>

\* one call of thread_rng().gen::<u64>() and the two assignments after it
Sample(s) ==
    /\ rand_seed' = s
    /\ rand_dividend' = Mul128(s, max)
    /\ rand_dividend_u64' = CastU64(Mul128(s, max))
    /\ draws' = draws + 1
    /\ consumed' = Append(consumed, s)

\* lines 26-31
FirstDraw ==
    /\ pc = "draw"
    /\ \E s \in U64 : Sample(s)
    /\ pc' = "bias_test"
    /\ UNCHANGED <<max, t, result, cvars, uvars>>

\* line 41
BiasTest ==
    /\ pc = "bias_test"
    /\ pc' = IF rand_dividend_u64 < max THEN "threshold" ELSE "shift"
    /\ UNCHANGED <<max, rand_seed, rand_dividend, rand_dividend_u64, t,
                   draws, consumed, result, cvars, uvars>>

\* line 45
ComputeThreshold ==
    /\ pc = "threshold"
    /\ \E o \in ThresholdOutcomes(max) :
         IF o.panic
         THEN pc' = "panicked" /\ UNCHANGED t
         ELSE pc' = "loop" /\ t' = o.val
    /\ UNCHANGED <<max, rand_seed, rand_dividend, rand_dividend_u64,
                   draws, consumed, result, cvars, uvars>>

\* lines 46-50: one evaluation of the while condition, and the body if it holds
LoopTest ==
    /\ pc = "loop"
    /\ IF rand_dividend_u64 < AsU64(t)
       THEN /\ draws < MaxDraws
            /\ \E s \in U64 : Sample(s)
            /\ pc' = "loop"
       ELSE /\ pc' = "shift"
            /\ UNCHANGED <<rand_seed, rand_dividend, rand_dividend_u64,
                           draws, consumed>>
    /\ UNCHANGED <<max, t, result, cvars, uvars>>

\* line 53
Return ==
    /\ pc = "shift"
    /\ result' = Ok(CastU64(Shr64(rand_dividend)))
    /\ pc' = "returned"
    /\ UNCHANGED <<max, rand_seed, rand_dividend, rand_dividend_u64, t,
                   draws, consumed, cvars, uvars>>

Next == CheckMax \/ FirstDraw \/ BiasTest \/ ComputeThreshold \/ LoopTest
        \/ Return

Spec == Init /\ [][Next]_vars

----------------------------------------------------------------------------
(* tests::cast_uints_same_as_c *)

\* the attempts allowed by `assert!(attempts_cnt < 50)`
MaxAttempts == 50

InitCast ==
    /\ cpc = "start"
    /\ rnd = 0 /\ attempts_cnt = 0 /\ cast = 0 /\ c_assigned = 0
    /\ pc = "idle" /\ max = 0
    /\ rand_seed = 0 /\ rand_dividend = 0 /\ rand_dividend_u64 = 0 /\ t = 0
    /\ draws = 0 /\ consumed = <<>>
    /\ result = NoResult
    /\ npc = "idle" /\ x = 0 /\ c_neg = 0 /\ rust_neg = 0

\* lines 94-95
CastDraw ==
    /\ cpc = "start"
    /\ \E r \in U128 : rnd' = r
    /\ attempts_cnt' = 0
    /\ cpc' = "loop"
    /\ UNCHANGED <<cast, c_assigned, nvars, uvars>>

\* lines 96-100: one evaluation of the while condition, and the body if it holds
CastLoop ==
    /\ cpc = "loop"
    /\ IF rnd < U64_MAX
       THEN IF attempts_cnt < MaxAttempts
            THEN /\ \E r \in U128 : rnd' = r
                 /\ attempts_cnt' = attempts_cnt + 1
                 /\ cpc' = "loop"
            ELSE /\ cpc' = "panicked"
                 /\ UNCHANGED <<rnd, attempts_cnt>>
       ELSE /\ cpc' = "cast"
            /\ UNCHANGED <<rnd, attempts_cnt>>
    /\ UNCHANGED <<cast, c_assigned, nvars, uvars>>

\* lines 102-109
CastAssign ==
    /\ cpc = "cast"
    /\ cast' = CastU64(rnd)
    /\ c_assigned' = rnd % 2^W
    /\ cpc' = "assert"
    /\ UNCHANGED <<rnd, attempts_cnt, nvars, uvars>>

\* lines 110-111
CastAssert ==
    /\ cpc = "assert"
    /\ cpc' = IF c_assigned <= U64_MAX /\ cast = CastU64(c_assigned)
              THEN "passed" ELSE "panicked"
    /\ UNCHANGED <<rnd, attempts_cnt, cast, c_assigned, nvars, uvars>>

NextCast == CastDraw \/ CastLoop \/ CastAssign \/ CastAssert

SpecCast == InitCast /\ [][NextCast]_vars

----------------------------------------------------------------------------
(* tests::unary_minus_same_as_c *)

InitNeg ==
    /\ npc = "start"
    /\ x = 0 /\ c_neg = 0 /\ rust_neg = 0
    /\ pc = "idle" /\ max = 0
    /\ rand_seed = 0 /\ rand_dividend = 0 /\ rand_dividend_u64 = 0 /\ t = 0
    /\ draws = 0 /\ consumed = <<>>
    /\ result = NoResult
    /\ cpc = "idle" /\ rnd = 0 /\ attempts_cnt = 0 /\ cast = 0 /\ c_assigned = 0

\* line 116
NegDraw ==
    /\ npc = "start"
    /\ \E v \in U64 : x' = v
    /\ npc' = "c_neg"
    /\ UNCHANGED <<c_neg, rust_neg, nvars, cvars>>

\* lines 124-125
NegUnsigned ==
    /\ npc = "c_neg"
    /\ \E n \in CNegOutcomes(x) :
         IF n.panic \/ ~(n.val <= U64_MAX)
         THEN npc' = "panicked" /\ UNCHANGED c_neg
         ELSE npc' = "rust_neg" /\ c_neg' = n.val
    /\ UNCHANGED <<x, rust_neg, nvars, cvars>>

\* line 126
NegSigned ==
    /\ npc = "rust_neg"
    /\ \E n \in NegOutcomes(AsI64(x)) :
         IF n.panic
         THEN npc' = "panicked" /\ UNCHANGED rust_neg
         ELSE npc' = "assert" /\ rust_neg' = n.val
    /\ UNCHANGED <<x, c_neg, nvars, cvars>>

\* line 127
NegAssert ==
    /\ npc = "assert"
    /\ npc' = IF c_neg = AsU64(rust_neg) THEN "passed" ELSE "failed"
    /\ UNCHANGED <<x, c_neg, rust_neg, nvars, cvars>>

NextNeg == NegDraw \/ NegUnsigned \/ NegSigned \/ NegAssert

SpecNeg == InitNeg /\ [][NextNeg]_vars

----------------------------------------------------------------------------
(* Properties *)

\* the samples of a call that were drawn before the last one
Earlier == IF Len(consumed) = 0 THEN {} ELSE 1 .. (Len(consumed) - 1)

\* C1: for every bound > 0 every output v in [0, bound) is produced by the
\* same number of accepted sample values, floor(2^W / bound), in every build.
C1_Uniform ==
    (pc = "returned" /\ max > 0) =>
        \A checks \in BOOLEAN : \A v \in 0 .. (max - 1) :
            Cardinality({s \in U64 : Accepted(s, max, checks)
                                      /\ High(s, max) = v})
                = 2^W \div max

\* C2: for every bound > 0 and every sequence of samples the returned value
\* v satisfies 0 <= v < bound.
C2_RangeContainment ==
    (pc = "returned" /\ max > 0) =>
        /\ result.kind = "Ok"
        /\ 0 <= result.val
        /\ result.val < max

\* a call with bound > 1 has returned the largest value of the range
C2_Witness ==
    /\ pc = "returned" /\ max > 1 /\ draws >= 1
    /\ result = Ok(max - 1)

\* C3: a call with bound 0 returns the error value before any sample is
\* drawn: the random source is never called and no local is assigned.
C3_ZeroBound ==
    max = 0 =>
        /\ pc \in {"call", "returned", "idle"}
        /\ draws = 0 /\ consumed = <<>>
        /\ rand_seed = 0 /\ rand_dividend = 0 /\ rand_dividend_u64 = 0
        /\ t = 0
        /\ pc = "returned" => result = Err

\* a call with bound 0 has returned the error value without a draw
C3_Witness == pc = "returned" /\ max = 0 /\ result = Err /\ draws = 0

\* C4: whenever the bias branch is entered, the threshold the rejection loop
\* compares against equals 2^W mod bound = (2^W - bound) mod bound.
C4_Threshold ==
    pc = "loop" =>
        /\ AsU64(t) = (2^W) % max
        /\ AsU64(t) = (2^W - max) % max

\* C5: a call with bound > 0 returns the high half of s_k * bound, where s_k
\* is the first sample drawn whose low half is >= 2^W mod bound, and it has
\* consumed exactly the samples s_1 .. s_k.
C5_Scripted ==
    (pc = "returned" /\ max > 0) =>
        /\ Len(consumed) >= 1
        /\ \A i \in Earlier : (consumed[i] * max) % 2^W < (2^W) % max
        /\ (consumed[Len(consumed)] * max) % 2^W >= (2^W) % max
        /\ result = Ok((consumed[Len(consumed)] * max) \div 2^W)

\* C9: a call with bound > 0 is in Sampling until it reaches Done with a
\* success value; it never ends any other way.
C9_ReachesDone ==
    (pc # "idle" /\ max > 0) =>
        \/ pc \in {"call", "draw", "bias_test", "threshold", "loop", "shift"}
        \/ pc = "returned" /\ result.kind = "Ok"

\* C10: in the bias branch the signed computation of the threshold stays in
\* the i64 range: the negation of (max as i64) and the remainder are both
\* representable.
C10_NoOverflow ==
    pc = "threshold" =>
        /\ -AsI64(max) >= I64_MIN /\ -AsI64(max) <= I64_MAX
        /\ ~NegOverflows(AsI64(max))
        /\ ~RemOverflows(WrappingNeg(AsI64(max)), AsI64(max))

\* C7: for every nonzero x the unsigned negation 2^W - x equals the signed
\* negation of x read back as unsigned.
C7_UnaryMinus ==
    (x # 0 /\ npc \in {"panicked", "assert", "passed", "failed"}) =>
        /\ npc \in {"assert", "passed"}
        /\ c_neg = 2^W - x
        /\ AsU64(rust_neg) = 2^W - x

\* C8: for every double-width value r >= 2^W the truncating cast of r equals
\* r mod 2^W, and the test's assertions hold for it.
C8_TruncatingCast ==
    (rnd >= 2^W /\ cpc \in {"assert", "passed", "panicked"}) =>
        /\ cast = rnd % 2^W
        /\ cpc # "panicked"

\* the test has passed on the largest double-width value, cast to the
\* largest word
C8_Witness ==
    /\ cpc = "passed" /\ rnd = 2^(2*W) - 1
    /\ cast = U64_MAX

====
